---- MODULE Spec2Model ----
(***************************************************************************)
(* FTL engine, dnsmasq interfacing routines (src/dnsmasq_interface.c).     *)
(*                                                                         *)
(* The shared state of the engine (query table, domain table, client and   *)
(* forward tables, overTime buckets, global counters, the thread lock) and *)
(* one action per callback: FTL_new_query, FTL_forwarded, FTL_reply,       *)
(* FTL_cache, FTL_dnssec, FTL_dnsmasq_reload, FTL_read_hosts.              *)
(*                                                                         *)
(* C arrays are functions over 0..n-1, so slot indices are the source's.   *)
(* C strings are tuples of one-character strings, so that strtolower,      *)
(* strcmp and strstr are computed, not assumed.  A flag word is the set of *)
(* the names of the bits that are set: (flags & F_X) is F_X \in flags.     *)
(***************************************************************************)
EXTENDS Integers, Sequences, FiniteSets, TLC

(***************************************************************************)
(* Bound of the model.                                                     *)
(***************************************************************************)
\* number of events that change the engine's state (or the clock) in a run
MaxEvents == 4

(***************************************************************************)
(* Strings.                                                                *)
(***************************************************************************)
UpperCase == <<"A","B","C","D","E","F","G","H","I","J","K","L","M",
               "N","O","P","Q","R","S","T","U","V","W","X","Y","Z">>
LowerCase == <<"a","b","c","d","e","f","g","h","i","j","k","l","m",
               "n","o","p","q","r","s","t","u","v","w","x","y","z">>
DecDigit == <<"0","1","2","3","4","5","6","7","8","9">>

tolower(c) ==
    IF \E k \in 1..26 : UpperCase[k] = c
    THEN LowerCase[CHOOSE k \in 1..26 : UpperCase[k] = c]
    ELSE c

\* a comparison that is made without lowercasing first
strtolower_skipped(s) == s

\* strtolower(): every character replaced by its lower-case form
strtolower(s) == [k \in 1..Len(s) |-> tolower(s[k])]

\* strcmp(a, b) == 0
streq(a, b) == a = b

\* strstr(hay, needle) != NULL
strstr(hay, needle) ==
    \E k \in 1..(Len(hay) - Len(needle) + 1) :
        SubSeq(hay, k, k + Len(needle) - 1) = needle

strlen(s) == Len(s)

RECURSIVE decimal(_)
decimal(n) ==
    IF n < 10 THEN <<DecDigit[n + 1]>>
    ELSE decimal(n \div 10) \o <<DecDigit[(n % 10) + 1]>>

\* The string literals of the source
str_pi_hole == <<"p","i",".","h","o","l","e">>
str_hidden == <<"h","i","d","d","e","n">>
str_0_0_0_0 == <<"0",".","0",".","0",".","0">>
str_gravity_list == <<"/","g","r","a","v","i","t","y",".","l","i","s","t">>
str_black_list == <<"/","b","l","a","c","k",".","l","i","s","t">>

\* NULL pointer (char * or struct all_addr *): a value no string or address equals
NULL == <<"NULL">>
\* dest[0] = '\0'
EmptyStr == <<>>

(***************************************************************************)
(* Enumerations of FTL.h, kept by name.                                    *)
(***************************************************************************)
QUERY_UNKNOWN == "QUERY_UNKNOWN"
QUERY_GRAVITY == "QUERY_GRAVITY"
QUERY_FORWARDED == "QUERY_FORWARDED"
QUERY_CACHE == "QUERY_CACHE"
QUERY_WILDCARD == "QUERY_WILDCARD"
QUERY_BLACKLIST == "QUERY_BLACKLIST"

TYPE_A == "TYPE_A"
TYPE_AAAA == "TYPE_AAAA"
TYPE_ANY == "TYPE_ANY"
TYPE_SRV == "TYPE_SRV"
TYPE_SOA == "TYPE_SOA"
TYPE_PTR == "TYPE_PTR"
TYPE_TXT == "TYPE_TXT"
\* the index set of counters.querytype[] and overTime[].querytypedata[]
QueryTypes == {TYPE_A, TYPE_AAAA, TYPE_ANY, TYPE_SRV, TYPE_SOA, TYPE_PTR, TYPE_TXT}

REPLY_UNKNOWN == "REPLY_UNKNOWN"
REPLY_NODATA == "REPLY_NODATA"
REPLY_NXDOMAIN == "REPLY_NXDOMAIN"
REPLY_CNAME == "REPLY_CNAME"
REPLY_IP == "REPLY_IP"

DNSSEC_UNSPECIFIED == "DNSSEC_UNSPECIFIED"
DNSSEC_SECURE == "DNSSEC_SECURE"
DNSSEC_INSECURE == "DNSSEC_INSECURE"
DNSSEC_BOGUS == "DNSSEC_BOGUS"

STAT_SECURE == "STAT_SECURE"
STAT_INSECURE == "STAT_INSECURE"
STAT_BOGUS == "STAT_BOGUS"

PRIVACY_SHOW_ALL == 0
PRIVACY_HIDE_DOMAINS == 1
PRIVACY_HIDE_DOMAINS_CLIENTS == 2
PRIVACY_MAXIMUM == 3

\* inet_ntop(AF_INET, addr, dest, ADDRSTRLEN): dotted decimal of four bytes.
\* Every address of the model is an IPv4 address passed with F_IPV4 set.
inet_ntop(flags, addr) ==
    IF "F_IPV4" \in flags
    THEN decimal(addr[1]) \o <<".">> \o decimal(addr[2]) \o <<".">> \o
         decimal(addr[3]) \o <<".">> \o decimal(addr[4])
    ELSE <<":", ":">>

(***************************************************************************)
(* State.                                                                  *)
(***************************************************************************)
VARIABLES
    config,      \* [analyze_AAAA, privacylevel]
    now,         \* the clock, in overTime intervals
    counters,    \* the global counters
    queries,     \* queries[0..counters.queries-1]
    domains,     \* domains[0..n-1]
    clients,     \* clients[0..n-1]: the interned client strings
    forwarded,   \* forwarded[0..n-1]: the interned forward destinations
    overTime,    \* overTime[0..n-1]: the time buckets
    lock,        \* the thread lock of enable_thread_lock/disable_thread_lock
    pc,          \* position of a callback that is run in steps (see SpecRace)
    local,       \* locals of such a callback
    last,        \* history: the callback that ran last, the exit path it took
                 \* and the slot it matched or created
    events       \* history: the number of events that changed the state

data == <<counters, queries, domains, clients, forwarded, overTime>>
vars == <<config, now, counters, queries, domains, clients, forwarded, overTime, lock, pc, local, last, events>>

\* number of elements of a C array modelled as a function over 0..n-1
Size(f) == Cardinality(DOMAIN f)
\* the array with x stored in its first free slot
Push(f, x) == [k \in 0..Size(f) |-> IF k < Size(f) THEN f[k] ELSE x]
EmptyArray == [k \in {} |-> 0]

(***************************************************************************)
(* Collaborators that live outside dnsmasq_interface.c.                    *)
(***************************************************************************)
\* gettimestamp(): the overTime timestamp of the current time
gettimestamp == now

\* findOverTimeID(): the bucket of a timestamp; buckets are appended up to it
findOverTimeID(overTimetimestamp) == overTimetimestamp
NewBucket == [total |-> 0, blocked |-> 0, cached |-> 0,
              clientdata |-> EmptyArray,
              querytypedata |-> [t \in QueryTypes |-> 0]]
overTimeUpTo(oT, timeidx) ==
    [k \in 0..(IF timeidx + 1 > Size(oT) THEN timeidx ELSE Size(oT) - 1) |->
        IF k < Size(oT) THEN oT[k] ELSE NewBucket]

\* findDomainID(): the index of the domain, a new entry when it is not known
NewDomain(domain) ==
    [domain |-> domain, blockedcount |-> 0, wildcard |-> FALSE,
     IPv4 |-> NULL, IPv6 |-> NULL, dnssec |-> DNSSEC_UNSPECIFIED,
     reply |-> [r \in 0..1 |-> REPLY_UNKNOWN]]
findDomainID(tab, domain) ==
    IF \E k \in DOMAIN tab : streq(tab[k].domain, domain)
    THEN CHOOSE k \in DOMAIN tab : streq(tab[k].domain, domain)
    ELSE Size(tab)
domainsWith(tab, domain) ==
    IF \E k \in DOMAIN tab : streq(tab[k].domain, domain)
    THEN tab ELSE Push(tab, NewDomain(domain))

\* findClientID(), findForwardID(forward, true): the same over a table of strings
findStringID(tab, s) ==
    IF \E k \in DOMAIN tab : streq(tab[k], s)
    THEN CHOOSE k \in DOMAIN tab : streq(tab[k], s)
    ELSE Size(tab)
findClientID(tab, client) == findStringID(tab, client)
findForwardID(tab, forward) == findStringID(tab, forward)
stringsWith(tab, s) ==
    IF \E k \in DOMAIN tab : streq(tab[k], s) THEN tab ELSE Push(tab, s)

\* overTime[timeidx].clientdata[clientID]++ after validate_access_oTcl() has
\* made room for the client
clientdataIncrement(cd, clientID) ==
    [k \in 0..((IF clientID + 1 > Size(cd) THEN clientID + 1 ELSE Size(cd)) - 1) |->
        (IF k < Size(cd) THEN cd[k] ELSE 0) + (IF k = clientID THEN 1 ELSE 0)]

\* detectStatus(domain): QUERY_WILDCARD when the domain is on the wildcard
\* list that readWildcardsList() read, QUERY_CACHE for a user-provided entry.
\* The list is a file outside the model: both answers are possible.
detectStatusResults == {QUERY_WILDCARD, QUERY_CACHE}

(***************************************************************************)
(* The thread lock.                                                        *)
(***************************************************************************)
\* found == false after the scan of the query table
NotFound == -1

enable_thread_lock == lock = FALSE
disable_thread_lock == lock' = FALSE

\* a callback returns: the lock is released (and the history notes the path)
Return(op, path, i) ==
    /\ last' = [op |-> op, path |-> path, i |-> i]
    /\ disable_thread_lock

\* the first slot whose id is the event's id: for(i=0; i<counters.queries; i++)
\* ... if(queries[i].id == id) { found = true; break; }
findQuery(id) ==
    IF \E k \in 0..(counters.queries - 1) : queries[k].id = id
    THEN CHOOSE k \in 0..(counters.queries - 1) :
            /\ queries[k].id = id
            /\ \A j \in 0..(k - 1) : queries[j].id # id
    ELSE NotFound

(***************************************************************************)
(* FTL_new_query                                                           *)
(***************************************************************************)
\* if(!config.analyze_AAAA && strcmp(types," query[AAAA]") == 0)
is_unanalyzed_AAAA(types) ==
    ~config.analyze_AAAA /\ streq(types, " query[AAAA]")

\* ... { disable_thread_lock(); return; }
new_query_skip_AAAA ==
    /\ UNCHANGED data
    /\ Return("FTL_new_query", "skip_AAAA", NotFound)

\* the chain of strcmp(types, ...) that sets querytype; 0 when none matches
querytypeOf(types) ==
    IF streq(types, "query[A]") THEN TYPE_A
    ELSE IF streq(types, "query[AAAA]") THEN TYPE_AAAA
    ELSE IF streq(types, "query[ANY]") THEN TYPE_ANY
    ELSE IF streq(types, "query[SRV]") THEN TYPE_SRV
    ELSE IF streq(types, "query[SOA]") THEN TYPE_SOA
    ELSE IF streq(types, "query[PTR]") THEN TYPE_PTR
    ELSE IF streq(types, "query[TXT]") THEN TYPE_TXT
    ELSE "none"

FTL_new_query(flags, name, addr, types, id) ==
    /\ enable_thread_lock
    /\ IF is_unanalyzed_AAAA(types)
       THEN new_query_skip_AAAA
       ELSE
        LET queryID == counters.queries
            timeidx == findOverTimeID(gettimestamp)
            oT0 == overTimeUpTo(overTime, timeidx)
            lowered == strtolower(name)
        IN
        IF streq(lowered, str_pi_hole)
        THEN \* domain is "pi.hole", skip this query
             /\ overTime' = oT0
             /\ UNCHANGED <<counters, queries, domains, clients, forwarded>>
             /\ Return("FTL_new_query", "skip_pi_hole", NotFound)
        ELSE
        LET domain == IF config.privacylevel >= PRIVACY_HIDE_DOMAINS
                      THEN str_hidden ELSE lowered
            client == IF config.privacylevel >= PRIVACY_HIDE_DOMAINS_CLIENTS
                      THEN str_0_0_0_0 ELSE strtolower(inet_ntop(flags, addr))
            querytype == querytypeOf(types)
        IN
        IF querytype = "none"
        THEN \* Skipping unknown query type
             /\ overTime' = oT0
             /\ UNCHANGED <<counters, queries, domains, clients, forwarded>>
             /\ Return("FTL_new_query", "skip_unknown_type", NotFound)
        ELSE
        LET oT1 == [oT0 EXCEPT ![timeidx].querytypedata[querytype] = @ + 1]
            c1 == [counters EXCEPT !.querytype[querytype] = @ + 1]
        IN
        IF querytype # TYPE_A /\ querytype # TYPE_AAAA
        THEN \* Don't process this query further here, we already counted it
             /\ overTime' = oT1
             /\ counters' = c1
             /\ UNCHANGED <<queries, domains, clients, forwarded>>
             /\ Return("FTL_new_query", "counted_only", NotFound)
        ELSE
        LET domainID == findDomainID(domains, domain)
            clientID == findClientID(clients, client)
            record == [timestamp |-> gettimestamp,
                       type |-> querytype,
                       status |-> QUERY_UNKNOWN,
                       domainID |-> domainID,
                       clientID |-> clientID,
                       timeidx |-> timeidx,
                       id |-> id,
                       complete |-> FALSE,
                       private |-> (config.privacylevel = PRIVACY_MAXIMUM),
                       ttl |-> 0,
                       forwardID |-> NotFound]
        IN
        /\ domains' = domainsWith(domains, domain)
        /\ clients' = stringsWith(clients, client)
        /\ queries' = [k \in (DOMAIN queries) \cup {queryID} |->
                          IF k = queryID THEN record ELSE queries[k]]
        /\ counters' = [c1 EXCEPT !.queries = @ + 1, !.unknown = @ + 1]
        /\ overTime' = [oT1 EXCEPT ![timeidx].total = @ + 1,
                                   ![timeidx].clientdata =
                                        clientdataIncrement(@, clientID)]
        /\ UNCHANGED forwarded
        /\ Return("FTL_new_query", "created", queryID)

(***************************************************************************)
(* FTL_forwarded                                                           *)
(***************************************************************************)
\* a reversal that forgets to count the query as unknown again
forwarded_fix_counters_keeps_unknown(c) ==
    [c EXCEPT !.cached = @ - 1]

\* if(queries[i].status == QUERY_CACHE) { counters.cached--; ...; counters.unknown++; }
forwarded_fix_counters(c) ==
    [c EXCEPT !.cached = @ - 1, !.unknown = @ + 1]

\* a reversal that takes the query out of the bucket's total as well
forwarded_fix_overTime_and_total(oT, i) ==
    [oT EXCEPT ![queries[i].timeidx].cached = @ - 1,
               ![queries[i].timeidx].total = @ - 1]

\* overTime[queries[i].timeidx].cached--;
forwarded_fix_overTime(oT, i) ==
    [oT EXCEPT ![queries[i].timeidx].cached = @ - 1]

\* a scan that reverses the cache accounting but leaves the status alone
forwarded_mark_keeps_status(q, i) ==
    [q EXCEPT ![i].complete = IF q[i].status = QUERY_CACHE THEN FALSE ELSE @]

\* the body of the scan at the matching slot: the cache accounting is reversed
\* and complete reset when the status is QUERY_CACHE; the status is set
forwarded_mark(q, i) ==
    [q EXCEPT ![i].complete = IF q[i].status = QUERY_CACHE THEN FALSE ELSE @,
              ![i].status = QUERY_FORWARDED]

\* a finalization that leaves the query counted as unknown
forwarded_count_keeps_unknown(c) ==
    [c EXCEPT !.forwardedqueries = @ + 1]

\* if(!queries[i].complete) { counters.unknown--; counters.forwardedqueries++; }
forwarded_count(c) ==
    [c EXCEPT !.unknown = @ - 1, !.forwardedqueries = @ + 1]

\* a finalization that resets the complete flag instead of setting it
forwarded_finalize_reopens(q, i, forwardID) ==
    [q EXCEPT ![i].forwardID = forwardID, ![i].complete = FALSE]

\* queries[i].forwardID = forwardID; ... queries[i].complete = true;
forwarded_finalize(q, i, forwardID) ==
    [q EXCEPT ![i].forwardID = forwardID, ![i].complete = TRUE]

\* if(!found) { free(forward); disable_thread_lock(); return; }
forwarded_not_found ==
    /\ UNCHANGED data
    /\ Return("FTL_forwarded", "not_found", NotFound)

FTL_forwarded(flags, name, addr, id) ==
    /\ enable_thread_lock
    /\ LET forward == strtolower(inet_ntop(flags, addr))
           i == findQuery(id)
       IN
       IF i = NotFound
       THEN forwarded_not_found
       ELSE
       LET wasCache == queries[i].status = QUERY_CACHE
           c1 == IF wasCache THEN forwarded_fix_counters(counters) ELSE counters
           oT1 == IF wasCache THEN forwarded_fix_overTime(overTime, i) ELSE overTime
           q1 == forwarded_mark(queries, i)
       IN
       IF q1[i].complete
       THEN \* Count only if current query has not been counted so far
            /\ queries' = q1
            /\ counters' = c1
            /\ overTime' = oT1
            /\ UNCHANGED <<domains, clients, forwarded>>
            /\ Return("FTL_forwarded", "already_complete", i)
       ELSE
       LET forwardID == findForwardID(forwarded, forward)
       IN
       /\ forwarded' = stringsWith(forwarded, forward)
       /\ queries' = forwarded_finalize(q1, i, forwardID)
       /\ counters' = forwarded_count(c1)
       /\ overTime' = oT1
       /\ UNCHANGED <<domains, clients>>
       /\ Return("FTL_forwarded", IF wasCache THEN "reversed" ELSE "finalized", i)

(***************************************************************************)
(* FTL_dnsmasq_reload, FTL_read_hosts, statement by statement: the two are *)
(* called from different execution contexts (position pc.reload, pc.hosts) *)
(***************************************************************************)
\* filename != NULL && (strstr(filename, "/gravity.list") != NULL ||
\*                      strstr(filename, "/black.list") != NULL)
is_blocklist(filename) ==
    /\ filename # NULL
    /\ (strstr(filename, str_gravity_list) \/ strstr(filename, str_black_list))

\* what these two callbacks leave alone
RaceFrame ==
    UNCHANGED <<config, now, queries, domains, clients, forwarded, overTime,
                last, events>>

\* counters.gravity = 0;  -- FTL_dnsmasq_reload takes no lock
reload_reset ==
    /\ pc.reload = "called"
    /\ counters' = [counters EXCEPT !.gravity = 0]
    /\ pc' = [pc EXCEPT !.reload = "reset"]
    /\ UNCHANGED <<lock, local>>
    /\ RaceFrame

\* readWildcardsList(); the list is not part of the model
reload_readWildcardsList ==
    /\ pc.reload = "reset"
    /\ pc' = [pc EXCEPT !.reload = "done"]
    /\ UNCHANGED <<counters, lock, local>>
    /\ RaceFrame

\* enable_thread_lock(); if(filename != NULL && ...)
read_hosts_lock ==
    /\ pc.hosts = "called"
    /\ enable_thread_lock
    /\ lock' = TRUE
    /\ pc' = [pc EXCEPT !.hosts = IF is_blocklist(local.filename)
                                  THEN "load" ELSE "unlock"]
    /\ UNCHANGED <<counters, local>>
    /\ RaceFrame

\* counters.gravity += addr_count;  the load of counters.gravity ...
read_hosts_load ==
    /\ pc.hosts = "load"
    /\ local' = [local EXCEPT !.gravity = counters.gravity]
    /\ pc' = [pc EXCEPT !.hosts = "store"]
    /\ UNCHANGED <<counters, lock>>
    /\ RaceFrame

\* ... and the store of the sum
read_hosts_store ==
    /\ pc.hosts = "store"
    /\ counters' = [counters EXCEPT !.gravity = local.gravity + local.addr_count]
    /\ pc' = [pc EXCEPT !.hosts = "unlock"]
    /\ UNCHANGED <<lock, local>>
    /\ RaceFrame

\* disable_thread_lock();
read_hosts_unlock ==
    /\ pc.hosts = "unlock"
    /\ disable_thread_lock
    /\ pc' = [pc EXCEPT !.hosts = "done"]
    /\ UNCHANGED <<counters, local>>
    /\ RaceFrame

(***************************************************************************)
(* save_reply_type, storeIP                                                *)
(***************************************************************************)
\* the classification of save_reply_type()
replyOf(flags) ==
    IF "F_NEG" \in flags
    THEN (IF "F_NXDOMAIN" \in flags THEN REPLY_NXDOMAIN ELSE REPLY_NODATA)
    ELSE IF "F_CNAME" \in flags THEN REPLY_CNAME
    ELSE REPLY_IP

\* a reply slot that does not depend on the type of the query
replyIDOf_first(q, queryID) == IF queryID \in DOMAIN q THEN 0 ELSE 1

\* int replyID = queries[queryID].type == TYPE_A ? 0 : 1;
replyIDOf(q, queryID) == IF q[queryID].type = TYPE_A THEN 0 ELSE 1

\* domains[domainID].reply[replyID] = REPLY_...;
save_reply_type_domains(dom, q, flags, queryID) ==
    [dom EXCEPT ![q[queryID].domainID].reply[replyIDOf(q, queryID)] = replyOf(flags)]

\* counters.reply_...++;
save_reply_type_counters(c, flags) ==
    IF "F_NEG" \in flags
    THEN (IF "F_NXDOMAIN" \in flags
          THEN [c EXCEPT !.reply_NXDOMAIN = @ + 1]
          ELSE [c EXCEPT !.reply_NODATA = @ + 1])
    ELSE IF "F_CNAME" \in flags THEN [c EXCEPT !.reply_CNAME = @ + 1]
    ELSE [c EXCEPT !.reply_IP = @ + 1]

\* storeIP(i, ip): the address replaces the one stored for the query's type
storeIP(dom, q, i, ip) ==
    IF q[i].type = TYPE_A
    THEN [dom EXCEPT ![q[i].domainID].IPv4 = ip]
    ELSE IF q[i].type = TYPE_AAAA
    THEN [dom EXCEPT ![q[i].domainID].IPv6 = ip]
    ELSE dom

\* dest[0] = '\0'; if(addr) inet_ntop(...)
destOf(flags, addr) == IF addr # NULL THEN inet_ntop(flags, addr) ELSE EmptyStr

(***************************************************************************)
(* FTL_reply                                                               *)
(***************************************************************************)
\* !(flags & F_NEG) && !(flags & F_CNAME) && strlen(dest) > 2
is_storable(flags, dest) ==
    "F_NEG" \notin flags /\ "F_CNAME" \notin flags /\ strlen(dest) > 2

\* if(!queries[i].complete)
reply_is_open(q, i) == ~q[i].complete

\* if(!found) { disable_thread_lock(); return; }
reply_not_found ==
    /\ UNCHANGED data
    /\ Return("FTL_reply", "not_found", NotFound)

\* the F_CONFIG branch for a query that is not complete: the counters
reply_config_counters(c, status, flags) ==
    LET c1 == [c EXCEPT !.unknown = @ - 1]
        c2 == IF status = QUERY_WILDCARD THEN [c1 EXCEPT !.wildcardblocked = @ + 1]
              ELSE IF status = QUERY_CACHE THEN [c1 EXCEPT !.cached = @ + 1]
              ELSE c1
    IN save_reply_type_counters(c2, flags)

\* ... the bucket of the current time
reply_config_overTime(oT, status, timeidx) ==
    IF status = QUERY_WILDCARD THEN [oT EXCEPT ![timeidx].blocked = @ + 1]
    ELSE IF status = QUERY_CACHE THEN [oT EXCEPT ![timeidx].cached = @ + 1]
    ELSE oT

\* a wildcard block that is counted for the domain but not flagged
reply_config_domains_unflagged(dom, q, i, status) ==
    IF status = QUERY_WILDCARD
    THEN [dom EXCEPT ![q[i].domainID].blockedcount = @ + 1]
    ELSE dom

\* ... the domain of the query
reply_config_domains(dom, q, i, status) ==
    IF status = QUERY_WILDCARD
    THEN [dom EXCEPT ![q[i].domainID].blockedcount = @ + 1,
                     ![q[i].domainID].wildcard = TRUE]
    ELSE dom

FTL_reply(flags, name, addr, ttl, id) ==
    /\ enable_thread_lock
    /\ LET dest == destOf(flags, addr)
           i == findQuery(id)
       IN
       IF "F_CONFIG" \in flags
       THEN
         IF i = NotFound
         THEN reply_not_found
         ELSE
         \E status \in detectStatusResults :
         LET q1 == [queries EXCEPT ![i].status = status]
         IN
         IF reply_is_open(q1, i)
         THEN
           LET timeidx == findOverTimeID(gettimestamp)
               domainID == q1[i].domainID
               d1 == reply_config_domains(domains, q1, i, status)
               d2 == save_reply_type_domains(d1, q1, flags, i)
               d3 == IF is_storable(flags, dest) /\ streq(domains[domainID].domain, name)
                     THEN storeIP(d2, q1, i, dest) ELSE d2
           IN
           /\ counters' = reply_config_counters(counters, status, flags)
           /\ overTime' = reply_config_overTime(overTimeUpTo(overTime, timeidx),
                                                status, timeidx)
           /\ domains' = d3
           /\ queries' = [q1 EXCEPT ![i].ttl = ttl, ![i].complete = TRUE]
           /\ UNCHANGED <<clients, forwarded>>
           /\ Return("FTL_reply", "config_finalized", i)
         ELSE
           /\ queries' = q1
           /\ UNCHANGED <<counters, overTime, domains, clients, forwarded>>
           /\ Return("FTL_reply", "config_already_complete", i)
       ELSE IF "F_FORWARD" \in flags
       THEN
         IF i = NotFound
         THEN reply_not_found
         ELSE
         LET domainID == queries[i].domainID
         IN
         IF streq(domains[domainID].domain, name)
         THEN
           LET d2 == save_reply_type_domains(domains, queries, flags, i)
               d3 == IF is_storable(flags, dest)
                     THEN storeIP(d2, queries, i, dest) ELSE d2
           IN
           /\ counters' = save_reply_type_counters(counters, flags)
           /\ domains' = d3
           /\ queries' = [queries EXCEPT ![i].ttl = ttl]
           /\ UNCHANGED <<overTime, clients, forwarded>>
           /\ Return("FTL_reply", "forward_saved", i)
         ELSE
           /\ UNCHANGED data
           /\ Return("FTL_reply", "forward_other_name", i)
       ELSE \* unknown REPLY
         /\ UNCHANGED data
         /\ Return("FTL_reply", "unknown_flags", NotFound)

(***************************************************************************)
(* FTL_cache                                                               *)
(***************************************************************************)
\* ((flags & F_HOSTS) && (flags & F_IMMORTAL)) || ((flags & F_NAMEP) &&
\* (flags & F_DHCP)) || (flags & F_FORWARD)
is_cache_reply(flags) ==
    \/ ("F_HOSTS" \in flags /\ "F_IMMORTAL" \in flags)
    \/ ("F_NAMEP" \in flags /\ "F_DHCP" \in flags)
    \/ "F_FORWARD" \in flags

\* Determine requesttype
requesttypeOf(flags, arg) ==
    IF "F_HOSTS" \in flags
    THEN (IF arg # NULL /\ strstr(arg, str_gravity_list) THEN QUERY_GRAVITY
          ELSE IF arg # NULL /\ strstr(arg, str_black_list) THEN QUERY_BLACKLIST
          ELSE QUERY_CACHE)
    ELSE IF "F_NAMEP" \in flags /\ "F_DHCP" \in flags THEN QUERY_CACHE
    ELSE IF "F_FORWARD" \in flags THEN QUERY_CACHE
    ELSE QUERY_UNKNOWN

\* an early return that forgets disable_thread_lock()
cache_skip_pi_hole_keeps_lock ==
    /\ UNCHANGED data
    /\ last' = [op |-> "FTL_cache", path |-> "skip_pi_hole", i |-> NotFound]
    /\ lock' = TRUE

\* if(strcmp(domain, "pi.hole") == 0) { free(domain); disable_thread_lock(); return; }
cache_skip_pi_hole ==
    /\ UNCHANGED data
    /\ Return("FTL_cache", "skip_pi_hole", NotFound)

\* a miss that is taken out of the unknown queries all the same
cache_not_found_counts ==
    /\ counters' = [counters EXCEPT !.unknown = @ - 1]
    /\ UNCHANGED <<queries, domains, clients, forwarded, overTime>>
    /\ Return("FTL_cache", "not_found", NotFound)

\* if(!found) { disable_thread_lock(); return; }
cache_not_found ==
    /\ UNCHANGED data
    /\ Return("FTL_cache", "not_found", NotFound)

\* the scan: queries[i].status = requesttype at the matching slot
cache_mark(q, i, requesttype) == [q EXCEPT ![i].status = requesttype]

\* a cache answer that is accounted whether or not the query is complete
cache_is_open_always(q, i) == i \in DOMAIN q

\* if(!queries[i].complete)
cache_is_open(q, i) == ~q[i].complete

\* counters.unknown--; switch(requesttype) {...}
cache_counters(c, requesttype) ==
    LET c1 == [c EXCEPT !.unknown = @ - 1]
    IN IF requesttype \in {QUERY_GRAVITY, QUERY_BLACKLIST}
       THEN [c1 EXCEPT !.blocked = @ + 1]
       ELSE IF requesttype = QUERY_CACHE THEN [c1 EXCEPT !.cached = @ + 1]
       ELSE c1

\* a cache answer that is counted globally but not in its time bucket
cache_overTime_misses_cached(oT, requesttype, timeidx) ==
    IF requesttype \in {QUERY_GRAVITY, QUERY_BLACKLIST}
    THEN [oT EXCEPT ![timeidx].blocked = @ + 1]
    ELSE oT

cache_overTime(oT, requesttype, timeidx) ==
    IF requesttype \in {QUERY_GRAVITY, QUERY_BLACKLIST}
    THEN [oT EXCEPT ![timeidx].blocked = @ + 1]
    ELSE IF requesttype = QUERY_CACHE THEN [oT EXCEPT ![timeidx].cached = @ + 1]
    ELSE oT

cache_domains(dom, domainID, requesttype) ==
    IF requesttype \in {QUERY_GRAVITY, QUERY_BLACKLIST}
    THEN [dom EXCEPT ![domainID].blockedcount = @ + 1]
    ELSE dom

FTL_cache(flags, name, addr, arg, ttl, id) ==
    /\ enable_thread_lock
    /\ LET dest == destOf(flags, addr)
           domain == strtolower(name)
       IN
       IF streq(domain, str_pi_hole)
       THEN cache_skip_pi_hole
       ELSE IF is_cache_reply(flags)
       THEN
         LET requesttype == requesttypeOf(flags, arg)
             i == findQuery(id)
         IN
         IF i = NotFound
         THEN cache_not_found
         ELSE
         LET q1 == cache_mark(queries, i, requesttype)
             domainID == q1[i].domainID
         IN
         IF cache_is_open(q1, i)
         THEN
           LET timeidx == findOverTimeID(gettimestamp)
               d1 == cache_domains(domains, domainID, requesttype)
               d2 == save_reply_type_domains(d1, q1, flags, i)
               d3 == IF is_storable(flags, dest) /\ streq(domains[domainID].domain, name)
                     THEN storeIP(d2, q1, i, dest) ELSE d2
           IN
           /\ counters' = save_reply_type_counters(cache_counters(counters, requesttype), flags)
           /\ overTime' = cache_overTime(overTimeUpTo(overTime, timeidx),
                                         requesttype, timeidx)
           /\ domains' = d3
           /\ queries' = [q1 EXCEPT ![i].ttl = ttl, ![i].complete = TRUE]
           /\ UNCHANGED <<clients, forwarded>>
           /\ Return("FTL_cache", "finalized", i)
         ELSE
           /\ queries' = q1
           /\ UNCHANGED <<counters, overTime, domains, clients, forwarded>>
           /\ Return("FTL_cache", "already_complete", i)
       ELSE \* unknown CACHE reply (2)
         /\ UNCHANGED data
         /\ Return("FTL_cache", "unknown_flags", NotFound)

(***************************************************************************)
(* FTL_dnssec                                                              *)
(***************************************************************************)
dnssecOf(status) ==
    IF status = STAT_SECURE THEN DNSSEC_SECURE
    ELSE IF status = STAT_INSECURE THEN DNSSEC_INSECURE
    ELSE DNSSEC_BOGUS

FTL_dnssec(status, id) ==
    /\ enable_thread_lock
    /\ LET i == findQuery(id)
       IN
       IF i = NotFound
       THEN /\ UNCHANGED data
            /\ Return("FTL_dnssec", "not_found", NotFound)
       ELSE /\ domains' = [domains EXCEPT ![queries[i].domainID].dnssec = dnssecOf(status)]
            /\ UNCHANGED <<counters, queries, clients, forwarded, overTime>>
            /\ Return("FTL_dnssec", "saved", i)

(***************************************************************************)
(* The events dnsmasq delivers.                                            *)
(***************************************************************************)
name_a_io == <<"a",".","i","o">>
name_Pi_Hole == <<"P","i",".","H","o","l","e">>
addr_client == <<10,0,0,1>>
addr_upstream == <<8,8,8,8>>
addr_answer == <<1,2,3,4>>
path_gravity == <<"/","e","t","c">> \o str_gravity_list
path_hosts == <<"/","e","t","c","/","h","o","s","t","s">>

Configs == { [analyze_AAAA |-> TRUE, privacylevel |-> PRIVACY_SHOW_ALL],
             [analyze_AAAA |-> FALSE, privacylevel |-> PRIVACY_MAXIMUM] }

\* the transient ids dnsmasq hands out (and reuses)
IDs == {1, 2}

flags_query == {"F_QUERY", "F_FORWARD", "F_IPV4"}
QueryEvents ==
    { [name |-> name_a_io, types |-> "query[A]", id |-> 1],
      [name |-> name_a_io, types |-> "query[A]", id |-> 2],
      [name |-> name_a_io, types |-> "query[AAAA]", id |-> 1],
      [name |-> name_a_io, types |-> " query[AAAA]", id |-> 1],
      [name |-> name_a_io, types |-> "query[PTR]", id |-> 1],
      [name |-> name_Pi_Hole, types |-> "query[A]", id |-> 1] }

flags_forwarded == {"F_SERVER", "F_IPV4"}

\* answers: the flags that decide the classification of the reply and the
\* address that comes with it (none with a negative answer)
answer_IP == [flags |-> {"F_IPV4"}, addr |-> addr_answer]
answer_NXDOMAIN == [flags |-> {"F_IPV4", "F_NEG", "F_NXDOMAIN"}, addr |-> NULL]
ReplyEvents ==
    { [flags |-> {"F_CONFIG"} \cup answer_IP.flags, name |-> name_a_io,
       addr |-> answer_IP.addr, ttl |-> 60, id |-> id] : id \in IDs }
    \cup
    { [flags |-> {"F_FORWARD"} \cup answer_NXDOMAIN.flags, name |-> name_a_io,
       addr |-> answer_NXDOMAIN.addr, ttl |-> 60, id |-> id] : id \in IDs }
    \cup
    { [flags |-> answer_IP.flags, name |-> name_a_io,
       addr |-> answer_IP.addr, ttl |-> 60, id |-> 1] }

CacheEvents ==
    { [flags |-> {"F_HOSTS", "F_IMMORTAL"} \cup answer_IP.flags, name |-> name_a_io,
       addr |-> answer_IP.addr, arg |-> arg, ttl |-> 60, id |-> id] :
        arg \in {path_gravity, path_hosts}, id \in IDs }
    \cup
    { [flags |-> {"F_HOSTS"} \cup answer_IP.flags, name |-> name_a_io,
       addr |-> answer_IP.addr, arg |-> path_gravity, ttl |-> 60, id |-> 1],
      [flags |-> {"F_HOSTS", "F_IMMORTAL"} \cup answer_IP.flags, name |-> name_Pi_Hole,
       addr |-> answer_IP.addr, arg |-> path_hosts, ttl |-> 60, id |-> 1] }

DnssecEvents == { [status |-> STAT_SECURE, id |-> 1], [status |-> STAT_BOGUS, id |-> 2] }

\* an event is counted when it changes the tables or the counters
Counted ==
    /\ events' = IF data' # data THEN events + 1 ELSE events
    /\ events' <= MaxEvents

Init ==
    /\ config \in Configs
    /\ now = 0
    /\ counters = [queries |-> 0, unknown |-> 0, cached |-> 0, blocked |-> 0,
                   wildcardblocked |-> 0, forwardedqueries |-> 0,
                   reply_NXDOMAIN |-> 0, reply_NODATA |-> 0,
                   reply_CNAME |-> 0, reply_IP |-> 0,
                   querytype |-> [t \in QueryTypes |-> 0],
                   gravity |-> 0]
    /\ queries = EmptyArray
    /\ domains = EmptyArray
    /\ clients = EmptyArray
    /\ forwarded = EmptyArray
    /\ overTime = EmptyArray
    /\ lock = FALSE
    /\ pc = [reload |-> "idle", hosts |-> "idle"]
    /\ local = [filename |-> NULL, addr_count |-> 0, gravity |-> 0]
    /\ last = [op |-> "none", path |-> "none", i |-> NotFound]
    /\ events = 0

\* time passes
Tick ==
    /\ events < MaxEvents
    /\ now' = now + 1
    /\ events' = events + 1
    /\ UNCHANGED <<config, counters, queries, domains, clients, forwarded,
                   overTime, lock, pc, local, last>>

onQueryObserved ==
    /\ \E e \in QueryEvents :
          FTL_new_query(flags_query, e.name, addr_client, e.types, e.id)
    /\ Counted
    /\ UNCHANGED <<config, now, pc, local>>

onForwarded ==
    /\ \E id \in IDs : FTL_forwarded(flags_forwarded, name_a_io, addr_upstream, id)
    /\ Counted
    /\ UNCHANGED <<config, now, pc, local>>

onReply ==
    /\ \E e \in ReplyEvents : FTL_reply(e.flags, e.name, e.addr, e.ttl, e.id)
    /\ Counted
    /\ UNCHANGED <<config, now, pc, local>>

onCacheAnswer ==
    /\ \E e \in CacheEvents : FTL_cache(e.flags, e.name, e.addr, e.arg, e.ttl, e.id)
    /\ Counted
    /\ UNCHANGED <<config, now, pc, local>>

onDnssecResult ==
    /\ \E e \in DnssecEvents : FTL_dnssec(e.status, e.id)
    /\ Counted
    /\ UNCHANGED <<config, now, pc, local>>

Next ==
    \/ Tick
    \/ onQueryObserved
    \/ onForwarded
    \/ onReply
    \/ onCacheAnswer
    \/ onDnssecResult

Spec == Init /\ [][Next]_vars

(***************************************************************************)
(* dnsmasq reloads its configuration in one execution context while a      *)
(* hosts file is reported in another.                                      *)
(***************************************************************************)
HostsEvents == { [filename |-> f, addr_count |-> n] :
                    f \in {path_gravity, path_hosts, NULL}, n \in {1, 2} }

\* both callbacks are called
RaceCall ==
    /\ pc.reload = "idle" /\ pc.hosts = "idle"
    /\ events < MaxEvents
    /\ events' = events + 1
    /\ \E e \in HostsEvents :
          local' = [filename |-> e.filename, addr_count |-> e.addr_count,
                    gravity |-> 0]
    /\ pc' = [reload |-> "called", hosts |-> "called"]
    /\ UNCHANGED <<config, now, counters, queries, domains, clients, forwarded,
                   overTime, lock, last>>

\* both have returned
RaceReturn ==
    /\ pc.reload = "done" /\ pc.hosts = "done"
    /\ pc' = [reload |-> "idle", hosts |-> "idle"]
    /\ UNCHANGED <<config, now, counters, queries, domains, clients, forwarded,
                   overTime, lock, local, last, events>>

NextRace ==
    \/ RaceCall
    \/ reload_reset
    \/ reload_readWildcardsList
    \/ read_hosts_lock
    \/ read_hosts_load
    \/ read_hosts_store
    \/ read_hosts_unlock
    \/ RaceReturn

SpecRace == Init /\ [][NextRace]_vars

(***************************************************************************)
(* The callbacks with a wider choice of arguments; local keeps the          *)
(* arguments of the call that ran last.                                    *)
(***************************************************************************)
name_pi_hole == <<"p","i",".","h","o","l","e">>
name_PI_HOLE == <<"P","I",".","H","O","L","E">>
\* the spellings of the name that FTL_new_query and FTL_cache skip
SentinelNames == {name_pi_hole, name_Pi_Hole, name_PI_HOLE}
path_black == <<"/","e","t","c">> \o str_black_list
\* an id that no query carries
id_unused == 3

Args(flags, name, types, arg, id) ==
    [flags |-> flags, name |-> name, types |-> types, arg |-> arg, id |-> id]

\* every call is counted
Called == events' = events + 1 /\ events' <= MaxEvents

CallQueryEvents ==
    { [name |-> name_a_io, types |-> "query[A]", id |-> 1],
      [name |-> name_a_io, types |-> "query[AAAA]", id |-> 2] }
    \cup { [name |-> n, types |-> "query[A]", id |-> 1] : n \in SentinelNames }

callQueryObserved ==
    /\ \E e \in CallQueryEvents :
          /\ FTL_new_query(flags_query, e.name, addr_client, e.types, e.id)
          /\ local' = Args(flags_query, e.name, e.types, NULL, e.id)
    /\ Called
    /\ UNCHANGED <<config, now, pc>>

callForwarded ==
    /\ \E id \in IDs \cup {id_unused} :
          /\ FTL_forwarded(flags_forwarded, name_a_io, addr_upstream, id)
          /\ local' = Args(flags_forwarded, name_a_io, "", NULL, id)
    /\ Called
    /\ UNCHANGED <<config, now, pc>>

\* the flags that decide the classification of a reply
AnswerKinds == { {}, {"F_NEG", "F_NXDOMAIN"}, {"F_NEG"}, {"F_CNAME"}, {"F_NEG", "F_CNAME"} }
CallReplyEvents ==
    { [flags |-> {b, "F_IPV4"} \cup k, id |-> 1] :
        b \in {"F_CONFIG", "F_FORWARD"}, k \in AnswerKinds }
    \cup
    { [flags |-> {"F_CONFIG", "F_IPV4", "F_CNAME"}, id |-> 2],
      [flags |-> {"F_FORWARD", "F_IPV4"}, id |-> 2],
      [flags |-> {"F_CONFIG", "F_IPV4"}, id |-> id_unused],
      [flags |-> {"F_FORWARD", "F_IPV4"}, id |-> id_unused],
      [flags |-> {"F_IPV4"}, id |-> 1] }

callReply ==
    /\ \E e \in CallReplyEvents :
          /\ FTL_reply(e.flags, name_a_io,
                       IF "F_NEG" \in e.flags THEN NULL ELSE addr_answer, 60, e.id)
          /\ local' = Args(e.flags, name_a_io, "", NULL, e.id)
    /\ Called
    /\ UNCHANGED <<config, now, pc>>

CallCacheEvents ==
    { [flags |-> {"F_HOSTS", "F_IMMORTAL", "F_IPV4"}, name |-> name_a_io, arg |-> a, id |-> 1] :
        a \in {path_gravity, path_black, path_hosts} }
    \cup
    { [flags |-> {"F_HOSTS", "F_IMMORTAL", "F_IPV4"}, name |-> name_a_io, arg |-> NULL, id |-> 2],
      [flags |-> {"F_NAMEP", "F_DHCP", "F_IPV4"}, name |-> name_a_io, arg |-> NULL, id |-> 1],
      [flags |-> {"F_FORWARD", "F_IPV4", "F_CNAME"}, name |-> name_a_io, arg |-> NULL, id |-> 2],
      [flags |-> {"F_HOSTS", "F_FORWARD", "F_IPV4"}, name |-> name_a_io, arg |-> path_gravity, id |-> 1],
      [flags |-> {"F_HOSTS", "F_IPV4"}, name |-> name_a_io, arg |-> path_gravity, id |-> 1],
      [flags |-> {"F_NAMEP", "F_IPV4"}, name |-> name_a_io, arg |-> NULL, id |-> 2],
      [flags |-> {"F_FORWARD", "F_IPV4"}, name |-> name_a_io, arg |-> NULL, id |-> id_unused],
      [flags |-> {"F_HOSTS", "F_IMMORTAL", "F_IPV4"}, name |-> name_PI_HOLE, arg |-> path_hosts, id |-> 1] }

callCacheAnswer ==
    /\ \E e \in CallCacheEvents :
          /\ FTL_cache(e.flags, e.name, addr_answer, e.arg, 60, e.id)
          /\ local' = Args(e.flags, e.name, "", e.arg, e.id)
    /\ Called
    /\ UNCHANGED <<config, now, pc>>

CallDnssecEvents ==
    { [status |-> STAT_SECURE, id |-> 1], [status |-> STAT_INSECURE, id |-> 2],
      [status |-> STAT_BOGUS, id |-> id_unused] }

callDnssecResult ==
    /\ \E e \in CallDnssecEvents :
          /\ FTL_dnssec(e.status, e.id)
          /\ local' = Args({}, NULL, "", NULL, e.id)
    /\ Called
    /\ UNCHANGED <<config, now, pc>>

NextCalls ==
    \/ Tick
    \/ callQueryObserved
    \/ callForwarded
    \/ callReply
    \/ callCacheAnswer
    \/ callDnssecResult

SpecCalls == Init /\ [][NextCalls]_vars

(***************************************************************************)
(* Properties.                                                             *)
(***************************************************************************)
Slots == 0..(counters.queries - 1)
completed == Cardinality({k \in Slots : queries[k].complete})
\* the counters of all time buckets
bucketCounters(oT) ==
    [k \in DOMAIN oT |-> [total |-> oT[k].total, blocked |-> oT[k].blocked,
                          cached |-> oT[k].cached, clientdata |-> oT[k].clientdata,
                          querytypedata |-> oT[k].querytypedata]]
\* the step is a run of callback op (every callback notes its name in last;
\* the only other step of Spec, Tick, moves the clock)
Ran(op) == now' = now /\ last'.op = op
\* ... that matched slot last'.i, which was complete before the call
RanOnComplete(op) ==
    Ran(op) /\ last'.i # NotFound /\ last'.path # "created" /\ queries[last'.i].complete
\* the slots that carry the same transient id as slot i
sameId(i) == {k \in Slots : queries[k].id = queries[i].id}
highest(S) == CHOOSE k \in S : \A j \in S : j <= k

\* C1: between handler invocations the unknown counter plus the number of
\* complete records equals the queries counter, which is the number of records
\* created.
C1_UnknownPlusCompleted ==
    /\ counters.unknown + completed = counters.queries
    /\ DOMAIN queries = Slots
\* a cache answer was reversed by a forward while a second query with the same
\* id is in flight
C1_Witness ==
    /\ last.op = "FTL_forwarded" /\ last.path = "reversed"
    /\ counters.queries = 2 /\ counters.unknown = 1 /\ completed = 1

\* C2: forwardedqueries is incremented at most once per query record, so it
\* never exceeds the number of records created.
C2_ForwardedAtMostOncePerRecord ==
    counters.forwardedqueries <= counters.queries

\* C3: onForwarded modifies the record with the highest slot index among those
\* that carry the event's id; every other record is left unchanged.
C3_ForwardedHitsLastMatch ==
    [][ (Ran("FTL_forwarded") /\ last'.i # NotFound)
        => \A k \in Slots : k # highest(sameId(last'.i)) => queries'[k] = queries[k] ]_vars

\* C4: FTL_dnsmasq_reload and FTL_read_hosts run atomically with respect to
\* each other: when both have returned, counters.gravity is what one of the two
\* serial orders gives (0 when the reload ran last, the file's count when the
\* hosts file was counted after the reload).
C4_ReloadSerializable ==
    (pc.reload = "done" /\ pc.hosts = "done")
        => counters.gravity \in
             {0, IF is_blocklist(local.filename) THEN local.addr_count ELSE 0}

\* a step of onReply or onCacheAnswer that matched a record already complete
ReplayOnComplete == RanOnComplete("FTL_cache") \/ RanOnComplete("FTL_reply")

exceptReplyKinds(c) ==
    [c EXCEPT !.reply_NXDOMAIN = 0, !.reply_NODATA = 0, !.reply_CNAME = 0, !.reply_IP = 0]
replySum(c) == c.reply_NXDOMAIN + c.reply_NODATA + c.reply_CNAME + c.reply_IP

C6_AAAANotAnalyzed ==
    ~config.analyze_AAAA
        => /\ counters.querytype[TYPE_AAAA] = 0
           /\ \A k \in Slots : queries[k].type # TYPE_AAAA
           /\ \A b \in DOMAIN overTime : overTime[b].querytypedata[TYPE_AAAA] = 0

\* C7: onCacheAnswer on a record that is already complete changes neither the
\* record nor the domain nor any counter.
C7_CacheOnCompleteIsNoOp ==
    [][ RanOnComplete("FTL_cache")
        => UNCHANGED <<queries, domains, counters, overTime>> ]_vars

\* the forward destination of the onForwarded events, as FTL_forwarded interns it
str_upstream == strtolower(inet_ntop(flags_forwarded, addr_upstream))

\* C8: onForwarded on a record that is already complete (status other than
\* QUERY_CACHE) sets its status to QUERY_FORWARDED and its forwardID to the ID
\* of the event's forward destination, and changes no counter.
C8_ForwardedOnCompleteStoresDestination ==
    [][ (RanOnComplete("FTL_forwarded") /\ queries[last'.i].status # QUERY_CACHE)
        => /\ queries'[last'.i].status = QUERY_FORWARDED
           /\ \E f \in DOMAIN forwarded' :
                 /\ forwarded'[f] = str_upstream
                 /\ queries'[last'.i].forwardID = f
           /\ counters' = counters
           /\ bucketCounters(overTime') = bucketCounters(overTime) ]_vars

\* C9: from one handler invocation to the next no record's complete flag goes
\* from true to false (the reset in FTL_forwarded is undone before it returns).
C9_CompleteNeverReset ==
    [][ \A k \in Slots : queries[k].complete => queries'[k].complete ]_vars
\* FTL_forwarded reset complete for a QUERY_CACHE record and finalized it again
C9_Witness ==
    /\ last.op = "FTL_forwarded" /\ last.path = "reversed"
    /\ queries[last.i].complete /\ queries[last.i].status = QUERY_FORWARDED

\* C10: no handler returns holding the lock: between handler invocations the
\* lock is free, so the next handler can take it.
C10_LockReleased == lock = FALSE
\* handlers have returned early: a cache answer for "pi.hole" was skipped
\* after a query had been recorded
C10_Witness ==
    /\ last.op = "FTL_cache" /\ last.path = "skip_pi_hole"
    /\ counters.queries > 0
    /\ lock = FALSE

\* C11: onForwarded on a record that a cache answer completed with status
\* QUERY_CACHE lowers cached by one, leaves unknown as it was, raises
\* forwardedqueries by one, sets the status to QUERY_FORWARDED and leaves the
\* record complete.
C11_CacheThenForward ==
    [][ (RanOnComplete("FTL_forwarded") /\ queries[last'.i].status = QUERY_CACHE)
        => /\ counters'.cached = counters.cached - 1
           /\ counters'.unknown = counters.unknown
           /\ counters'.forwardedqueries = counters.forwardedqueries + 1
           /\ queries'[last'.i].status = QUERY_FORWARDED
           /\ queries'[last'.i].complete ]_vars
\* the scenario of the claim: one query, answered from the cache, then forwarded
C11_Witness ==
    /\ last.op = "FTL_forwarded" /\ last.path = "reversed"
    /\ counters.queries = 1 /\ counters.cached = 0 /\ counters.unknown = 0
    /\ counters.forwardedqueries = 1
    /\ queries[last.i].status = QUERY_FORWARDED /\ queries[last.i].complete

\* no counter of bucket b goes down in the step, other than those named in except
bucketKeeps(b, except) ==
    /\ "total" \in except \/ overTime'[b].total >= overTime[b].total
    /\ "blocked" \in except \/ overTime'[b].blocked >= overTime[b].blocked
    /\ "cached" \in except \/ overTime'[b].cached >= overTime[b].cached
    /\ \A c \in DOMAIN overTime[b].clientdata :
          /\ c \in DOMAIN overTime'[b].clientdata
          /\ overTime'[b].clientdata[c] >= overTime[b].clientdata[c]
    /\ \A t \in QueryTypes :
          overTime'[b].querytypedata[t] >= overTime[b].querytypedata[t]

\* C16 as claimed: no counter of any time bucket ever decreases.
C16_BucketCountersNeverDecrease ==
    [][ \A b \in DOMAIN overTime : b \in DOMAIN overTime' /\ bucketKeeps(b, {}) ]_vars

\* C16 amended: no counter of any time bucket decreases, except that
\* onForwarded on a record whose status is QUERY_CACHE lowers the cached
\* counter of that record's bucket by one.
C16_BucketCountersDecreaseOnlyOnReversal ==
    [][ \A b \in DOMAIN overTime :
          /\ b \in DOMAIN overTime'
          /\ IF /\ Ran("FTL_forwarded") /\ last'.i # NotFound
                /\ queries[last'.i].status = QUERY_CACHE
                /\ queries[last'.i].timeidx = b
             THEN /\ bucketKeeps(b, {"cached"})
                  /\ overTime'[b].cached = overTime[b].cached - 1
             ELSE bucketKeeps(b, {}) ]_vars
\* the reversal took a cache answer out of a bucket that had counted one
C16_Witness ==
    /\ last.op = "FTL_forwarded" /\ last.path = "reversed"
    /\ overTime[queries[last.i].timeidx].cached = 0
    /\ overTime[queries[last.i].timeidx].total = 1

\* the query created by the last callback reuses the id of a record that was
\* complete by then, and is itself still in flight
ReusedIdInFlight ==
    /\ last.op = "FTL_new_query" /\ last.i # NotFound
    /\ ~queries[last.i].complete
    /\ \E j \in sameId(last.i) : j < last.i /\ queries[j].complete

\* C17: when a later query reuses the id of a query that has completed, a
\* cache answer with that id completes the later record, which is in flight:
\* it gets its status and unknown is decremented.
C17_CacheAnswerHitsInFlight ==
    [][ (/\ ReusedIdInFlight
         /\ Ran("FTL_cache") /\ last'.i \in sameId(last.i))
        => /\ queries'[last.i].complete
           /\ queries'[last.i].status # QUERY_UNKNOWN
           /\ counters'.unknown = counters.unknown - 1 ]_vars

\* C20: the global cached counter is never negative.
C20_CachedNeverNegative == counters.cached >= 0

\* the counter of bucket b in table oT, 0 while the bucket does not exist
bucketTotal(oT, b) == IF b \in DOMAIN oT THEN oT[b].total ELSE 0
bucketBlocked(oT, b) == IF b \in DOMAIN oT THEN oT[b].blocked ELSE 0
bucketClient(oT, b, c) ==
    IF b \in DOMAIN oT /\ c \in DOMAIN oT[b].clientdata THEN oT[b].clientdata[c] ELSE 0

\* the call is an onQueryObserved of type A or AAAA that the filters accept
AcceptedQuery ==
    /\ Ran("FTL_new_query")
    /\ local'.name \notin SentinelNames
    /\ \/ local'.types = "query[A]"
       \/ local'.types = "query[AAAA]" /\ config.analyze_AAAA
\* the last call created a record whose id no other record carries
FreshQuery ==
    /\ last.op = "FTL_new_query" /\ last.i # NotFound
    /\ sameId(last.i) = {last.i}
    /\ ~queries[last.i].complete

\* C12: an accepted onQueryObserved of type A or AAAA appends one record at
\* slot queries, with status QUERY_UNKNOWN, complete false and ttl 0, and
\* raises queries, unknown, the bucket's total and its per-client counter by
\* one; a following onForwarded with the fresh id makes that record
\* QUERY_FORWARDED and complete, lowers unknown and raises forwardedqueries.
C12_QueryThenForward ==
    [][ /\ AcceptedQuery =>
             LET n == counters.queries
                 r == queries'[n]
             IN /\ DOMAIN queries' = DOMAIN queries \cup {n}
                /\ n \notin DOMAIN queries
                /\ \A k \in DOMAIN queries : queries'[k] = queries[k]
                /\ r.id = local'.id
                /\ r.type = (IF local'.types = "query[A]" THEN TYPE_A ELSE TYPE_AAAA)
                /\ r.status = QUERY_UNKNOWN /\ ~r.complete /\ r.ttl = 0
                /\ r.timeidx = now
                /\ counters'.queries = counters.queries + 1
                /\ counters'.unknown = counters.unknown + 1
                /\ overTime'[now].total = bucketTotal(overTime, now) + 1
                /\ overTime'[now].clientdata[r.clientID]
                      = bucketClient(overTime, now, r.clientID) + 1
        /\ (FreshQuery /\ Ran("FTL_forwarded") /\ local'.id = queries[last.i].id) =>
                /\ queries'[last.i].status = QUERY_FORWARDED
                /\ queries'[last.i].complete
                /\ counters'.unknown = counters.unknown - 1
                /\ counters'.forwardedqueries = counters.forwardedqueries + 1
                /\ counters'.queries = counters.queries ]_vars
\* a second query, of type AAAA and in a later bucket, was forwarded
C12_Witness ==
    /\ last.op = "FTL_forwarded" /\ last.i = 1
    /\ queries[1].type = TYPE_AAAA /\ queries[1].timeidx = 1
    /\ queries[1].status = QUERY_FORWARDED /\ queries[1].complete
    /\ counters.queries = 2 /\ counters.forwardedqueries = 1

\* the call carries an id that no record carries
NoMatch ==
    /\ \E op \in {"FTL_forwarded", "FTL_reply", "FTL_cache", "FTL_dnssec"} : Ran(op)
    /\ \A k \in Slots : queries[k].id # local'.id

\* C13: onForwarded, onReply, onCacheAnswer and onDnssecResult with an id
\* that matches no record change no record, domain, forward destination,
\* global counter or bucket.
C13_NoMatchIsNoOp ==
    [][ NoMatch => UNCHANGED <<queries, domains, clients, forwarded, counters, overTime>> ]_vars
\* records exist and the last call, a DNSSEC result, matched none of them
C13_Witness ==
    /\ last.op = "FTL_dnssec" /\ counters.queries = 2
    /\ \A k \in Slots : queries[k].id # local.id

\* C14: onQueryObserved for "pi.hole" in any letter case creates no record
\* and changes no queries, unknown or per-type counter; onCacheAnswer for it
\* changes no record and no counter.
C14_SentinelIgnored ==
    [][ ((Ran("FTL_new_query") \/ Ran("FTL_cache")) /\ local'.name \in SentinelNames)
        => /\ UNCHANGED <<queries, counters, domains>>
           /\ \A b \in DOMAIN overTime' :
                 bucketCounters(overTime')[b] =
                    IF b \in DOMAIN overTime THEN bucketCounters(overTime)[b]
                    ELSE bucketCounters(<<NewBucket>>)[1] ]_vars
\* a query for "PI.HOLE" or "Pi.Hole" was skipped after a query was recorded
C14_Witness ==
    /\ last.op = "FTL_new_query" /\ local.name \in SentinelNames \ {name_pi_hole}
    /\ counters.queries = 1

\* the classification of a reply as the claim states it
ClaimedReply(flags) ==
    CASE "F_NEG" \in flags /\ "F_NXDOMAIN" \in flags -> REPLY_NXDOMAIN
      [] "F_NEG" \in flags /\ "F_NXDOMAIN" \notin flags -> REPLY_NODATA
      [] "F_NEG" \notin flags /\ "F_CNAME" \in flags -> REPLY_CNAME
      [] OTHER -> REPLY_IP
replyCounter(c, kind) ==
    CASE kind = REPLY_NXDOMAIN -> c.reply_NXDOMAIN
      [] kind = REPLY_NODATA -> c.reply_NODATA
      [] kind = REPLY_CNAME -> c.reply_CNAME
      [] OTHER -> c.reply_IP
\* the call classifies a reply for the record in slot i: FTL_reply with
\* F_CONFIG for a record in flight, FTL_reply with F_FORWARD for a record
\* whose domain is the replied name, FTL_cache for a record in flight
ClassifiesReplyFor(i) ==
    /\ last'.i = i
    /\ \/ /\ Ran("FTL_reply") /\ "F_CONFIG" \in local'.flags /\ ~queries[i].complete
       \/ /\ Ran("FTL_reply") /\ "F_CONFIG" \notin local'.flags
          /\ "F_FORWARD" \in local'.flags
          /\ domains[queries[i].domainID].domain = local'.name
       \/ /\ Ran("FTL_cache") /\ ~queries[i].complete

\* C15: a reply is classified from the flags alone (NXDOMAIN, NODATA, CNAME
\* or IP); the classification is written to slot 0 of the domain for a query
\* of type A and to slot 1 for type AAAA, and exactly the counter of that
\* classification is incremented, by one.
C15_ReplyClassification ==
    [][ \A i \in Slots : ClassifiesReplyFor(i) =>
          LET kind == ClaimedReply(local'.flags)
              slot == IF queries[i].type = TYPE_A THEN 0 ELSE 1
              d == queries[i].domainID
          IN /\ domains'[d].reply[slot] = kind
             /\ domains'[d].reply[1 - slot] = domains[d].reply[1 - slot]
             /\ \A k \in {REPLY_NXDOMAIN, REPLY_NODATA, REPLY_CNAME, REPLY_IP} :
                   replyCounter(counters', k) =
                      replyCounter(counters, k) + (IF k = kind THEN 1 ELSE 0) ]_vars
\* an AAAA query got a CNAME from the cache while the A slot of the domain
\* holds another classification
C15_Witness ==
    /\ last.op = "FTL_cache" /\ last.i # NotFound
    /\ queries[last.i].type = TYPE_AAAA
    /\ domains[queries[last.i].domainID].reply[1] = REPLY_CNAME
    /\ domains[queries[last.i].domainID].reply[0] = REPLY_NODATA
    /\ counters.reply_CNAME = 1 /\ counters.reply_NODATA = 1

\* the request type of a cache answer as the claim states it
has_marker(arg, m) == arg # NULL /\ strstr(arg, m)
ClaimedRequestType(flags, arg) ==
    IF "F_HOSTS" \in flags /\ "F_IMMORTAL" \in flags
    THEN (IF has_marker(arg, str_gravity_list) THEN QUERY_GRAVITY
          ELSE IF has_marker(arg, str_black_list) THEN QUERY_BLACKLIST
          ELSE QUERY_CACHE)
    ELSE IF ("F_NAMEP" \in flags /\ "F_DHCP" \in flags) \/ "F_FORWARD" \in flags
    THEN QUERY_CACHE
    ELSE "none"

\* C18: onCacheAnswer gives the matched record the request type the claim
\* derives from the flags and the path; a flag combination outside that
\* table changes no record and no counter.
C18_CacheClassification ==
    [][ (Ran("FTL_cache") /\ local'.name \notin SentinelNames) =>
          LET t == ClaimedRequestType(local'.flags, local'.arg)
          IN IF t = "none"
             THEN UNCHANGED <<queries, counters, overTime>>
             ELSE \A k \in Slots :
                     (queries[k].id = local'.id /\ ~queries[k].complete
                      /\ \A j \in Slots : j < k => queries[j].id # local'.id)
                     => queries'[k].status = t ]_vars

\* onReply took the F_CONFIG branch for a record in flight and detectStatus
\* returned QUERY_WILDCARD (the status it returns is stored in the record)
WildcardReply ==
    /\ Ran("FTL_reply") /\ "F_CONFIG" \in local'.flags
    /\ last'.i # NotFound /\ ~queries[last'.i].complete
    /\ queries'[last'.i].status = QUERY_WILDCARD
\* what the claim and the code agree on: the bucket, the domain, the flag
WildcardCounted ==
    LET d == queries[last'.i].domainID
    IN /\ overTime'[now].blocked = bucketBlocked(overTime, now) + 1
       /\ domains'[d].blockedcount = domains[d].blockedcount + 1
       /\ domains'[d].wildcard
WildcardSticky ==
    \A d \in DOMAIN domains : domains[d].wildcard =>
        d \in DOMAIN domains' /\ domains'[d].wildcard

\* C19 as claimed: such a reply raises the global blocked counter, the
\* bucket's blocked counter and the domain's blockedcount by one and sets the
\* domain's wildcard flag; a wildcard flag that is set is never cleared.
C19_WildcardCountsAsBlocked ==
    [][ /\ WildcardReply => (counters'.blocked = counters.blocked + 1 /\ WildcardCounted)
        /\ WildcardSticky ]_vars

\* C19 amended: the global counter that is raised is wildcardblocked; the
\* global blocked counter stays as it is.
C19_WildcardCountsAsWildcardBlocked ==
    [][ /\ WildcardReply =>
             /\ counters'.wildcardblocked = counters.wildcardblocked + 1
             /\ counters'.blocked = counters.blocked
             /\ WildcardCounted
        /\ WildcardSticky ]_vars
\* a domain was flagged by a wildcard reply and a later query to it was
\* forwarded: the flag is still set
C19_Witness ==
    /\ last.op = "FTL_forwarded" /\ last.i = 1
    /\ counters.wildcardblocked = 1 /\ counters.blocked = 0
    /\ queries[0].status = QUERY_WILDCARD
    /\ domains[queries[1].domainID].wildcard
    /\ queries[1].domainID = queries[0].domainID

\* the sum of the cached counters of the buckets 0..n-1
RECURSIVE cachedUpTo(_)
cachedUpTo(n) == IF n = 0 THEN 0 ELSE overTime[n - 1].cached + cachedUpTo(n - 1)

\* C21: the cached counters of all time buckets add up to the global cached
\* counter, with time advancing into new buckets between events.
C21_BucketCachedSumsToGlobal ==
    cachedUpTo(Size(overTime)) = counters.cached
\* a query of bucket 0 was answered from the cache in bucket 1 and then
\* forwarded: the answer was counted in bucket 1 and taken out of bucket 0
C21_Witness ==
    /\ last.op = "FTL_forwarded" /\ last.path = "reversed"
    /\ Size(overTime) = 2
    /\ overTime[0].cached = -1 /\ overTime[1].cached = 1
    /\ counters.cached = 0

====
